---- MODULE Spec2Model ----
(***************************************************************************)
(* The shared-function call pipeline of kernelmodules/mainmodules/rpc      *)
(* (function_call.go): five chained engine-loop tasks                      *)
(*   T1 functionCallInEventloopInit                                        *)
(*   T2 functionCallInEventloopProxyObjectPrepare                          *)
(*   T3 functionCallInEventloop                                            *)
(*   T4 functionCallInEventloopPromiseOperation                            *)
(*   Tp functionCallInEventloopFinall / callInKernelEventLoopCheck         *)
(* running on one FIFO engine loop shared by several calls, together with  *)
(* the request context (terminal flag, response sink, timers), the event   *)
(* loop and the transport, whose code is not part of function_call.go and  *)
(* is modelled from the specification.                                     *)
(***************************************************************************)
EXTENDS Integers, Sequences, FiniteSets, TLC

(* ------------------------------ bounds -------------------------------- *)

\* timers one call registers over its lifetime
MaxTimers == 1
\* terminator signals remembered per call (history only)
MaxLog == 2

\* The calls the transport hands to one VM. Call 1 is the call under study:
\* its request and its user code range over everything below. Call 2 is a
\* plain call that shares the engine loop with it.
Calls == {1, 2}

(* ------------------------------ values -------------------------------- *)

\* static.HTTP_REQUEST, WEBSOCKET_REQUEST, IPC_REQUEST and a value outside them
RequestTypes == {"HTTP", "WEBSOCKET", "IPC", "OTHER"}

\* the six parameter tags of convertRequestParametersToV8Parameters's switch
SupportedTags == {"boolean", "number", "string", "array", "object", "bytes"}

\* Go kinds a parameter value can have; v8.NewValue builds an engine value
\* for the first three only
NewValueKinds == {"bool", "float64", "string"}

\* values user code passes to Resolve
Values == {"v5", "v24"}

\* values a promise is rejected with / user code passes to Reject:
\* a JS string and a JS Error object
Reasons == {[t |-> "str", s |-> "nope"], [t |-> "err", s |-> "boom"]}

\* info.Args()[0].String(): the JS string conversion of a value
V8String(r) == IF r.t = "err" THEN "Error: " \o r.s ELSE r.s

Param(ctype, kind) == [CType |-> ctype, Value |-> kind]

(* --------------------------- value marshaller -------------------------- *)

\* v8.NewValue(iso, item.Value): an engine value tagged with what it holds,
\* or an error for a Go kind the binding does not convert
v8NewValue(value) ==
  IF value \in NewValueKinds
    THEN [err |-> FALSE, val |-> [js |-> value]]
    ELSE [err |-> TRUE, val |-> [js |-> "none"]]

\* One pass of the loop over reqparms, from index hight on.
\* status: "ok" (values), "err" (error returned, no values),
\*         "fault" (parmTypes[hight] indexed past its end: a runtime panic)
RECURSIVE convertFrom(_, _, _, _)
convertFrom(parmTypes, reqparms, hight, convertedValues) ==
  IF hight > Len(reqparms)
    THEN [status |-> "ok", vals |-> convertedValues, error |-> "none"]
  ELSE IF hight > Len(parmTypes)
    THEN [status |-> "fault", vals |-> <<>>, error |-> "index out of range"]
  ELSE IF reqparms[hight].CType # parmTypes[hight]
    THEN [status |-> "err", vals |-> <<>>, error |-> "not same parameter"]
  ELSE IF reqparms[hight].CType \notin SupportedTags
    THEN [status |-> "err", vals |-> <<>>, error |-> "unsuported datatype"]
  ELSE LET nv == v8NewValue(reqparms[hight].Value) IN
       IF nv.err
         THEN [status |-> "err", vals |-> <<>>, error |-> "new value"]
         ELSE convertFrom(parmTypes, reqparms, hight + 1,
                          Append(convertedValues, nv.val))

\* (faulty variant) the loop without the comparison of CType and parmTypes[hight]
RECURSIVE convertUnchecked(_, _, _)
convertUnchecked(reqparms, hight, convertedValues) ==
  IF hight > Len(reqparms)
    THEN [status |-> "ok", vals |-> convertedValues, error |-> "none"]
  ELSE IF reqparms[hight].CType \notin SupportedTags
    THEN [status |-> "err", vals |-> <<>>, error |-> "unsuported datatype"]
  ELSE LET nv == v8NewValue(reqparms[hight].Value) IN
       IF nv.err
         THEN [status |-> "err", vals |-> <<>>, error |-> "new value"]
         ELSE convertUnchecked(reqparms, hight + 1,
                               Append(convertedValues, nv.val))

convertRequestParameters_unchecked(parmTypes, reqparms) ==
  convertUnchecked(reqparms, 1, <<>>)

convertRequestParametersToV8Parameters(parmTypes, reqparms) ==
  convertFrom(parmTypes, reqparms, 1, <<>>)

(* ------------------------------ requests ------------------------------- *)

NoHttp == [present |-> FALSE, Header |-> <<>>, Cookies |-> <<>>,
           ContentLength |-> 0, Host |-> "", Proto |-> "",
           RemoteAddr |-> "", RequestURI |-> ""]

\* an http.Request with a two-valued header and one cookie
SomeHttp == [present |-> TRUE,
             Header |-> <<[k |-> "X-F", v |-> <<"a", "b">>]>>,
             Cookies |-> <<[Name |-> "s", Value |-> "1", Domain |-> "d",
                            Path |-> "/", RawExpires |-> "e"]>>,
             ContentLength |-> 7, Host |-> "h", Proto |-> "HTTP/1.1",
             RemoteAddr |-> "ra", RequestURI |-> "/rpc"]

RpcRequest(type, sig, parms, http) ==
  [RequestType |-> type, Signature |-> sig, Parms |-> parms,
   HttpRequest |-> http]

\* The requests the transport hands to the pipeline: one per branch of T1.
\* Signature is o.signature.Params of the shared function the call names.
PipelineRequests ==
  { RpcRequest("HTTP", <<"number">>, <<Param("number", "float64")>>, SomeHttp),
    RpcRequest("IPC", <<"string">>, <<Param("number", "float64")>>, NoHttp),
    RpcRequest("IPC", <<"date">>, <<Param("date", "string")>>, NoHttp),
    RpcRequest("OTHER", <<>>, <<>>, NoHttp),
    RpcRequest("HTTP", <<>>, <<>>, NoHttp),
    RpcRequest("IPC", <<>>, <<Param("number", "float64")>>, NoHttp) }

NoRequest == RpcRequest("none", <<>>, <<>>, NoHttp)

\* the request of a plain call: a websocket call without parameters
PlainRequests == { RpcRequest("WEBSOCKET", <<>>, <<>>, NoHttp) }

RequestsOf(c) == IF c = 1 THEN PipelineRequests ELSE PlainRequests

\* some params[i].ctype differs from signature[i]
TypeMismatch(r) ==
  \E i \in 1..Len(r.Parms) :
     i <= Len(r.Signature) /\ r.Parms[i].CType # r.Signature[i]

(* ------------------------ request object builder ----------------------- *)

\* rpcrequest.IsHttpRequest: the request carries its http.Request
IsHttpRequest(rrpcrequest) == rrpcrequest.HttpRequest.present

\* the inner loop over one header's values: sliceObject.MethodCall("push", ..)
\* for each value in turn
RECURSIVE pushValues(_, _)
pushValues(sliceObject, v) ==
  IF v = <<>> THEN sliceObject
  ELSE pushValues(Append(sliceObject, Head(v)), Tail(v))

\* (faulty variant) a header with one value is set as that value, not as an
\* array
RECURSIVE headersObject_flat(_)
headersObject_flat(header) ==
  IF header = <<>> THEN <<>>
  ELSE <<[k |-> Head(header).k, isArray |-> Len(Head(header).v) # 1,
          items |-> pushValues(<<>>, Head(header).v)]>>
       \o headersObject_flat(Tail(header))

\* the loop over HttpRequest.Header: each value list becomes a JS array built
\* by running slice.js (an empty array) and pushing the values in order
RECURSIVE headersObject(_)
headersObject(header) ==
  IF header = <<>> THEN <<>>
  ELSE <<[k |-> Head(header).k, isArray |-> TRUE,
          items |-> pushValues(<<>>, Head(header).v)]>>
       \o headersObject(Tail(header))

RECURSIVE cookiesObject(_)
cookiesObject(cookies) ==
  IF cookies = <<>> THEN <<>>
  ELSE <<[k |-> Head(cookies).Name,
          Value |-> Head(cookies).Value, Domain |-> Head(cookies).Domain,
          Path |-> Head(cookies).Path, Expires |-> Head(cookies).RawExpires]>>
       \o cookiesObject(Tail(cookies))

NoHttpObject == [present |-> FALSE, IsConnected |-> FALSE, ContentLength |-> 0,
                 Host |-> "", Proto |-> "", RemoteAddr |-> "",
                 RequestURI |-> "", Cookies |-> <<>>, Headers |-> <<>>]

NoObject == [Resolve |-> FALSE, Reject |-> FALSE, CallMethode |-> "",
             http |-> NoHttpObject]

\* (faulty variant) no request type is refused and no http object is nested
v8makeSharedFunctionObject_anyType(rrpcrequest) ==
  [err |-> FALSE,
   obj |-> [Resolve |-> TRUE, Reject |-> TRUE,
            CallMethode |->
              CASE rrpcrequest.RequestType = "HTTP" -> "http"
                [] rrpcrequest.RequestType = "WEBSOCKET" -> "ws"
                [] OTHER -> "ipc",
            http |-> NoHttpObject],
   ranScript |-> FALSE]

\* v8makeSharedFunctionObject: err, the object, and whether slice.js was run
\* (a script run ends with the engine's microtask checkpoint)
v8makeSharedFunctionObject(rrpcrequest) ==
  LET fail == [err |-> TRUE, obj |-> NoObject, ranScript |-> FALSE]
      h == rrpcrequest.HttpRequest
  IN
  CASE rrpcrequest.RequestType = "HTTP" ->
         IF ~IsHttpRequest(rrpcrequest) THEN fail
         ELSE [err |-> FALSE,
               obj |-> [Resolve |-> TRUE, Reject |-> TRUE,
                        CallMethode |-> "http",
                        http |-> [present |-> TRUE, IsConnected |-> TRUE,
                                  ContentLength |-> h.ContentLength,
                                  Host |-> h.Host, Proto |-> h.Proto,
                                  RemoteAddr |-> h.RemoteAddr,
                                  RequestURI |-> h.RequestURI,
                                  Cookies |-> cookiesObject(h.Cookies),
                                  Headers |-> headersObject(h.Header)]],
               ranScript |-> h.Header # <<>>]
    [] rrpcrequest.RequestType = "WEBSOCKET" ->
         [err |-> FALSE,
          obj |-> [Resolve |-> TRUE, Reject |-> TRUE, CallMethode |-> "ws",
                   http |-> NoHttpObject],
          ranScript |-> FALSE]
    [] rrpcrequest.RequestType = "IPC" ->
         [err |-> FALSE,
          obj |-> [Resolve |-> TRUE, Reject |-> TRUE, CallMethode |-> "ipc",
                   http |-> NoHttpObject],
          ranScript |-> FALSE]
    [] OTHER -> fail

\* v8makeProxyForRPCCall: the members of the object bound as `this`
v8makeProxyForRPCCall ==
  {"proxyShieldConsoleLog", "proxyShieldErrorLog", "clearInterval",
   "clearTimeout", "setInterval", "setTimeout", "resolve", "reject",
   "newPromise", "wait"}

(* ------------------------------- state --------------------------------- *)

VARIABLES
  req,        \* req[c]: the RpcRequest of call c (NoRequest before it arrives)
  accepted,   \* "no" | "yes" (Init returned nil) | "refused" (it returned an error)
  engine,     \* "running" | "closing" (shutting down) | "closed" | "panicked"
  queue,      \* the engine loop's FIFO of tasks [c, k]
  clo,        \* what the task closures of call c captured
  task,       \* per call and task kind: times run, error setter, result setter
  rc,         \* the SharedFunctionRequestContext of call c
  pr,         \* the promises of call c
  micro,      \* the context's microtask queue
  connected,  \* the transport's is_connected flag of call c
  sleeping,   \* poll goroutines of call c inside time.Sleep
  hist        \* per call: the terminator signals raised, in order

vars == <<req, accepted, engine, queue, clo, task, rc, pr, micro, connected,
          sleeping, hist>>

\* T1..T4, the first poll Tp, a re-submitted poll Tq, a timer callback Tt
Kinds == {"T1", "T2", "T3", "T4", "Tp", "Tq", "Tt"}

Task(c, k) == [c |-> c, k |-> k]

NoReason == [t |-> "none", s |-> ""]

FunctionCallState(state, result, error) ==
  [State |-> state, Result |-> result, Error |-> error]

(* ------------------- request context (terminal guard) ------------------ *)

\* The engine-side world the callbacks work on, as one value.
World == [rc |-> rc, pr |-> pr, micro |-> micro, hist |-> hist]

\* history: remember an event of call c (the first MaxLog of a call):
\* what user code called, how the promise reaction ran, the disconnect
Logged(W, c, kind, payload, at) ==
  IF Len(W.hist[c]) >= MaxLog THEN W
  ELSE [W EXCEPT !.hist[c] = Append(@, [k |-> kind, p |-> payload, at |-> at])]

\* a value as an event's payload
Val(v) == [t |-> "val", s |-> v]

\* writeRequestReturnResponse: the guarded write to the response sink.
\* The terminal flag is tested and set in one step.
writeRequestReturnResponse(r, state) ==
  IF r.terminal THEN r
  ELSE [r EXCEPT !.terminal = TRUE, !.sink = Append(@, state)]

\* request.resolveFunctionCallbackV8: Resolve(value) / this.resolve(value)
resolveFunctionCallbackV8(W, c, value) ==
  [W EXCEPT !.rc[c] =
     writeRequestReturnResponse(@, FunctionCallState("ok", value, ""))]

\* request.rejectFunctionCallbackV8: Reject(error) / this.reject(error)
rejectFunctionCallbackV8(W, c, error) ==
  [W EXCEPT !.rc[c] =
     writeRequestReturnResponse(@,
        FunctionCallState("exception", "", V8String(error)))]

\* request.functionCallFinal: the user function's promise fulfilled. It
\* delivers nothing: a call nobody resolved stays pending.
functionCallFinal(W, c) ==
  IF W.rc[c].terminal THEN W
  ELSE [W EXCEPT !.rc[c].final = TRUE]

\* request.functionCallException(msg): the promise rejected
functionCallException(W, c, msg) ==
  [W EXCEPT !.rc[c] =
     writeRequestReturnResponse(@, FunctionCallState("exception", "", msg))]

\* request.proxyShield_SetTimeout: one more outstanding timer, armed on the host
proxyShield_SetTimeout(W, c) ==
  IF W.rc[c].registered >= MaxTimers THEN W
  ELSE [W EXCEPT !.rc[c].registered = @ + 1,
                 !.rc[c].timers = @ + 1,
                 !.rc[c].armed = @ + 1]

\* the JS boolean v8.NewValue builds from a Go bool
V8Bool(b) == IF b THEN "true" ELSE "false"

\* (faulty variant) the failure path writes to the sink without the guard
isConnected_unguarded(W, c, newValueFails) ==
  IF newValueFails
    THEN [W EXCEPT !.rc[c].terminal = TRUE,
                    !.rc[c].probe = "throw",
                    !.rc[c].sink = Append(@,
               FunctionCallState("aborted", "", "javascript engine error"))]
    ELSE [W EXCEPT !.rc[c].probe = V8Bool(connected[c])]

\* (faulty variant) the probe returns the flag's value of the time the
\* request object was built
isConnected_snapshot(W, c, newValueFails) ==
  IF newValueFails
    THEN [W EXCEPT !.rc[c] =
            writeRequestReturnResponse([@ EXCEPT !.probe = "throw"],
               FunctionCallState("aborted", "", "javascript engine error"))]
    ELSE [W EXCEPT !.rc[c].probe = V8Bool(TRUE)]

\* isConnected of v8makeSharedFunctionObject: the liveness probe. When the
\* engine cannot build the boolean, the call is aborted and a JS exception
\* is thrown; otherwise the flag's value is returned and nothing is written.
\* probe: what the last call of IsConnected gave to user code, the boolean
\* read from rrpcrequest.HttpRequest.IsConnected at that moment or a throw.
isConnected(W, c, newValueFails) ==
  IF newValueFails
    THEN [W EXCEPT !.rc[c] =
            writeRequestReturnResponse([@ EXCEPT !.probe = "throw"],
               FunctionCallState("aborted", "", "javascript engine error"))]
    ELSE [W EXCEPT !.rc[c].probe = V8Bool(connected[c])]

(* ------------------------ promises and microtasks ---------------------- *)

\* p0: the promise the wrapper returned; p1 == p0.then(funcFinal, throwProm);
\* p2 == p1.catch(throwProm)
PStates == {"none", "pending", "fulfilled", "rejected"}

Settled(st) == st \in {"fulfilled", "rejected"}

Job(c, on) == [c |-> c, on |-> on]

\* p0 of call c settles; a reaction already attached becomes a microtask
SettleP0(W, c, st, reason) ==
  LET W1 == [W EXCEPT !.pr[c].p0 = st, !.pr[c].reason = reason] IN
  IF W.pr[c].p1 # "none"
    THEN [W1 EXCEPT !.micro = Append(@, Job(c, "p0"))]
    ELSE W1

\* (faulty variant) the onFulfilled handler delivers ok
funcFinal_resolves(W, c) == resolveFunctionCallbackV8(W, c, "undefined")

\* funcFinal: the onFulfilled handler of T4
funcFinal(W, c) == functionCallFinal(W, c)

\* (faulty variant) the onRejected handler writes to the sink without the guard
throwProm_unguarded(W, c, reason) ==
  [W EXCEPT !.rc[c].terminal = TRUE,
            !.rc[c].sink = Append(@,
               FunctionCallState("exception", "", V8String(reason)))]

\* (faulty variant) the onRejected handler passes the reason's message, not its
\* string form
throwProm_raw(W, c, reason) == functionCallException(W, c, reason.s)

\* throwProm: the onRejected handler of T4, used by then and by catch
throwProm(W, c, reason) == functionCallException(W, c, V8String(reason))

\* One promise reaction job. Both handlers return undefined, so the derived
\* promise fulfils whichever handler ran.
RunJob(W, job) ==
  LET c == job.c IN
  IF job.on = "p0"
    THEN LET W1 == IF W.pr[c].p0 = "fulfilled"
                     THEN funcFinal(Logged(W, c, "Fulfilled", NoReason, "micro"), c)
                     ELSE throwProm(Logged(W, c, "Rejected", W.pr[c].reason,
                                           "micro"),
                                    c, W.pr[c].reason)
         IN [W1 EXCEPT !.pr[c].p1 = "fulfilled",
                       !.micro = IF W.pr[c].p2 # "none"
                                   THEN Append(@, Job(c, "p1")) ELSE @]
    ELSE \* the catch reaction on p1: a fulfilled p1 passes through
         LET W1 == IF W.pr[c].p1 = "rejected"
                     THEN throwProm(Logged(W, c, "Rejected", W.pr[c].reason,
                                           "micro"),
                                    c, W.pr[c].reason)
                     ELSE W
         IN [W1 EXCEPT !.pr[c].p2 = "fulfilled"]

\* ctx.PerformMicrotaskCheckpoint, and the checkpoint the engine makes when a
\* script or function call from the host returns: run the queue until empty
RECURSIVE PerformMicrotaskCheckpoint(_)
PerformMicrotaskCheckpoint(W) ==
  IF W.micro = <<>> THEN W
  ELSE PerformMicrotaskCheckpoint(
         RunJob([W EXCEPT !.micro = Tail(@)], Head(W.micro)))

\* prom.Then(funcFinal, throwProm) on p0, giving p1
PromiseThen(W, c) ==
  LET W1 == [W EXCEPT !.pr[c].p1 = "pending"] IN
  IF Settled(W.pr[c].p0)
    THEN [W1 EXCEPT !.micro = Append(@, Job(c, "p0"))]
    ELSE W1

\* prom.Catch(throwProm) on p1, giving p2
PromiseCatch(W, c) ==
  LET W1 == [W EXCEPT !.pr[c].p2 = "pending"] IN
  IF Settled(W.pr[c].p1)
    THEN [W1 EXCEPT !.micro = Append(@, Job(c, "p1"))]
    ELSE W1

(* ------------------------------ user code ------------------------------ *)

\* what one invocation of user code can do with its request object and this
UserOps(obj) ==
  [op : {"Resolve"}, v : Values, e : {NoReason}, fail : {FALSE}]
  \cup [op : {"Reject"}, v : {""}, e : Reasons, fail : {FALSE}]
  \cup [op : {"setTimeout"}, v : {""}, e : {NoReason}, fail : {FALSE}]
  \cup (IF obj.http.present
          THEN [op : {"IsConnected"}, v : {""}, e : {NoReason}, fail : BOOLEAN]
          ELSE {})

\* one invocation of user code performs at most one of them
UserScripts(obj) == {<<>>} \cup {<<o>> : o \in UserOps(obj)}

\* (faulty variant) Resolve is wired to the reject callback
ApplyOp_swapped(W, c, o) ==
  CASE o.op = "Resolve" ->
         rejectFunctionCallbackV8(W, c, [t |-> "str", s |-> o.v])
    [] o.op = "Reject" -> rejectFunctionCallbackV8(W, c, o.e)
    [] o.op = "setTimeout" -> proxyShield_SetTimeout(W, c)
    [] o.op = "IsConnected" -> isConnected(W, c, o.fail)

\* The members of the request object and of the proxy shield user code
\* calls, each bound to its callback of the request context.
ApplyOp(W, c, o) ==
  CASE o.op = "Resolve" -> resolveFunctionCallbackV8(W, c, o.v)
    [] o.op = "Reject" -> rejectFunctionCallbackV8(W, c, o.e)
    [] o.op = "setTimeout" -> proxyShield_SetTimeout(W, c)
    [] o.op = "IsConnected" -> isConnected(W, c, o.fail)

\* history: what the user code called, when it asks for an outcome
LoggedOp(W, c, o, at) ==
  CASE o.op = "Resolve" -> Logged(W, c, "Resolve", Val(o.v), at)
    [] o.op = "Reject" -> Logged(W, c, "Reject", o.e, at)
    [] o.op = "IsConnected" /\ o.fail -> Logged(W, c, "EngineFail", NoReason, at)
    [] OTHER -> W

\* the user function of a plain call resolves at once
PlainScripts ==
  { <<[op |-> "Resolve", v |-> "v5", e |-> NoReason, fail |-> FALSE]>> }

ScriptsOf(c, obj) == IF c = 1 THEN UserScripts(obj) ELSE PlainScripts

RECURSIVE UserRun(_, _, _, _)
UserRun(W, c, ops, at) ==
  IF ops = <<>> THEN W
  ELSE UserRun(ApplyOp(LoggedOp(W, c, Head(ops), at), c, Head(ops)),
               c, Tail(ops), at)

(* ------------------------------ scheduler ------------------------------ *)

\* the message of the plain error of a loop that has stopped
LoopClosedMessage == "eventloop closed"

\* o.kernel.AddToEventLoop: appends to the FIFO; fails synchronously with a
\* SpecificError while the engine is shutting down, and with a plain error
\* once the loop has stopped
AddToEventLoop(q, t) ==
  CASE engine = "running" -> [err |-> "nil", queue |-> Append(q, t)]
    [] engine = "closing" -> [err |-> "SpecificError", queue |-> q]
    [] OTHER -> [err |-> LoopClosedMessage, queue |-> q]

Alive == engine # "panicked"

\* the engine thread takes the task at the head of the queue
Next1(c, k) == Alive /\ queue # <<>> /\ Head(queue) = Task(c, k)

Min(a, b) == IF a < b THEN a ELSE b

\* bookkeeping of one run of task k of call c (history: the count stops at 2,
\* for the polls and timer callbacks at 1); res: klopr.SetResult was called
Ran(c, k, res) ==
  task' = [task EXCEPT ![c][k].ran =
                         Min(@ + 1, IF k \in {"Tq", "Tt"} THEN 1 ELSE 2),
                       ![c][k].res = @ \/ res]

\* task k of call c ran and ended by calling the function that submits task
\* nk, which returned sub.err; klopr.SetResult is called when that is nil
RanAndSubmitted(c, k, nk, sub) ==
  task' = [task EXCEPT ![c][k].ran = Min(@ + 1, 2),
                       ![c][k].res = @ \/ sub.err = "nil",
                       ![c][nk].sub = sub.err]

Commit(W) ==
  /\ rc' = W.rc
  /\ pr' = W.pr
  /\ micro' = W.micro
  /\ hist' = W.hist

\* panic(...) inside a task body: nothing recovers it, the process ends
Panic == engine' = "panicked"

NoClosure == [convertedValues |-> <<>>, requestObj |-> NoObject,
              proxArguments |-> <<>>, result |-> "none"]

Init ==
  /\ req = [c \in Calls |-> NoRequest]
  /\ accepted = [c \in Calls |-> "no"]
  /\ engine = "running"
  /\ queue = <<>>
  /\ clo = [c \in Calls |-> NoClosure]
  /\ task = [c \in Calls |->
              [k \in Kinds |-> [ran |-> 0, err |-> FALSE, res |-> FALSE,
                              sub |-> "none"]]]
  /\ rc = [c \in Calls |->
            [terminal |-> FALSE, sink |-> <<>>, final |-> FALSE,
             registered |-> 0, timers |-> 0, armed |-> 0,
             probe |-> "none"]]
  /\ pr = [c \in Calls |->
            [p0 |-> "none", p1 |-> "none", p2 |-> "none",
             reason |-> NoReason, polled |-> "none"]]
  /\ micro = <<>>
  /\ connected = [c \in Calls |-> TRUE]
  /\ sleeping = [c \in Calls |-> 0]
  /\ hist = [c \in Calls |-> <<>>]

\* the tag every one of the five functions puts before a plain error
ErrorTag == "functionCallInEventloopFinall: "

\* (faulty variant) a SpecificError is wrapped like any other error
SubmitError_wrapsAll(err) == IF err = "nil" THEN "nil" ELSE ErrorTag \o err

\* the error switch after AddToEventLoop, the same in all five functions
SubmitError(err) ==
  CASE err = "nil" -> "nil"
    [] err = "SpecificError" -> err
    [] OTHER -> ErrorTag \o err

\* the host part of each stage: build the task, submit it, map the error
SubmitStage(q, c, k) ==
  LET a == AddToEventLoop(q, Task(c, k)) IN
  [err |-> SubmitError(a.err), queue |-> a.queue]

(* ------------------------------ transport ------------------------------ *)

\* The transport hands call c to functionCallInEventloopInit, which submits
\* T1 and returns nil, or the scheduler's error.
Submit(c) ==
  /\ Alive
  /\ accepted[c] = "no"
  /\ \E r \in RequestsOf(c) :
       LET a == SubmitStage(queue, c, "T1") IN
       /\ req' = [req EXCEPT ![c] = r]
       /\ queue' = a.queue
       /\ task' = [task EXCEPT ![c]["T1"].sub = a.err]
       /\ accepted' = [accepted EXCEPT ![c] =
                         IF a.err = "nil" THEN "yes" ELSE "refused"]
  /\ UNCHANGED <<engine, clo, rc, pr, micro, connected, sleeping, hist>>

\* The transport notices that the caller of c is gone: is_connected becomes
\* false and the disconnect watcher emits aborted through the guard.
Disconnect(c) ==
  /\ Alive
  /\ accepted[c] = "yes"
  /\ connected[c]
  /\ connected' = [connected EXCEPT ![c] = FALSE]
  /\ LET W1 == Logged(World, c, "Disconnect", NoReason, "host") IN
     Commit([W1 EXCEPT !.rc[c] =
        writeRequestReturnResponse(@,
           FunctionCallState("aborted", "", "client disconnected"))])
  /\ UNCHANGED <<req, accepted, engine, queue, clo, task, sleeping>>

\* core.SignalShutdown: the engine stops accepting tasks
SignalShutdown ==
  /\ engine = "running"
  /\ engine' = "closing"
  /\ UNCHANGED <<req, accepted, queue, clo, task, rc, pr, micro, connected,
                 sleeping, hist>>

\* the shutdown completes: the queue is closed for submissions (what is
\* queued is still drained)
LoopClosed ==
  /\ engine = "closing"
  /\ engine' = "closed"
  /\ UNCHANGED <<req, accepted, queue, clo, task, rc, pr, micro, connected,
                 sleeping, hist>>

(* ------------------------------- pipeline ------------------------------ *)

functionCallInEventloopProxyObjectPrepare(q, c) == SubmitStage(q, c, "T2")

\* (faulty variant) the task of T3 is not submitted once the call is terminal
functionCallInEventloop_cancels(q, c) ==
  IF rc[c].terminal THEN [err |-> "nil", queue |-> q]
                    ELSE SubmitStage(q, c, "T3")

\* (faulty variant) the task of T4 is submitted in place of the task of T3
functionCallInEventloop_skips(q, c) == SubmitStage(q, c, "T4")

functionCallInEventloop(q, c) == SubmitStage(q, c, "T3")

functionCallInEventloopPromiseOperation(q, c) == SubmitStage(q, c, "T4")

functionCallInEventloopFinall(q, c) == SubmitStage(q, c, "Tp")

\* T1, the task body of functionCallInEventloopInit: convert the parameters,
\* build the request object, submit T2. Every failure path is a bare return.
T1(c) ==
  /\ Next1(c, "T1")
  /\ LET conv == convertRequestParametersToV8Parameters(req[c].Signature,
                                                       req[c].Parms)
         made == v8makeSharedFunctionObject(req[c])
         sub == functionCallInEventloopProxyObjectPrepare(Tail(queue), c)
     IN
     IF conv.status = "fault"
       THEN /\ Panic
            /\ queue' = Tail(queue)
            /\ Ran(c, "T1", FALSE)
            /\ UNCHANGED <<clo, rc, pr, micro, hist>>
     ELSE IF conv.status = "err"
       THEN /\ queue' = Tail(queue)
            /\ Ran(c, "T1", FALSE)
            /\ UNCHANGED <<engine, clo, rc, pr, micro, hist>>
     ELSE /\ Commit(IF made.ranScript
                      THEN PerformMicrotaskCheckpoint(World) ELSE World)
          /\ UNCHANGED engine
          /\ IF made.err
               THEN /\ queue' = Tail(queue)
                    /\ Ran(c, "T1", FALSE)
                    /\ UNCHANGED clo
               ELSE /\ clo' = [clo EXCEPT ![c].convertedValues = conv.vals,
                                          ![c].requestObj = made.obj]
                    /\ queue' = sub.queue
                    /\ RanAndSubmitted(c, "T1", "T2", sub)
  /\ UNCHANGED <<req, accepted, connected, sleeping>>

\* what evaluating rpc_function_call_proxy_shield.js and building the proxy
\* shield can give
PrepareOutcomes == {"ok", "scriptError", "notFunction", "proxyError"}

\* T2, the task body of functionCallInEventloopProxyObjectPrepare
T2(c) ==
  /\ Next1(c, "T2")
  /\ \E out \in PrepareOutcomes :
       LET finalArguments == <<[js |-> "requestObj"]>> \o clo[c].convertedValues
           proxArguments == <<[js |-> "userFn"], [js |-> "proxyObject"]>>
                            \o finalArguments
           sub == functionCallInEventloop(Tail(queue), c)
       IN
       \* a script that compiled has run, and its return is a checkpoint
       /\ Commit(IF out = "scriptError"
                   THEN World ELSE PerformMicrotaskCheckpoint(World))
       /\ IF out # "ok"
            THEN /\ queue' = Tail(queue)
                 /\ Ran(c, "T2", FALSE)
                 /\ UNCHANGED clo
            ELSE /\ clo' = [clo EXCEPT ![c].proxArguments = proxArguments]
                 /\ queue' = sub.queue
                 /\ RanAndSubmitted(c, "T2", "T3", sub)
  /\ UNCHANGED <<req, accepted, engine, connected, sleeping>>

\* how proxFunction.Call can end: an error (a synchronous throw), a value
\* that is no promise, or a promise in one of its three states
CallModes == {"throw", "nonpromise", "pending", "fulfilled", "rejected"}

\* the wrapper's promise of a plain call is fulfilled or stays pending
CallModesOf(c) == IF c = 1 THEN CallModes ELSE {"pending", "fulfilled"}

\* T3, the task body of functionCallInEventloop: the user function runs
T3(c) ==
  /\ Next1(c, "T3")
  /\ \E mode \in CallModesOf(c), ops \in ScriptsOf(c, clo[c].requestObj),
        reason \in Reasons :
       LET W1 == UserRun(World, c, ops, "T3")
           W2 == IF mode \in {"pending", "fulfilled"}
                   THEN SettleP0(W1, c, mode, NoReason)
                 ELSE IF mode = "rejected"
                   THEN SettleP0(W1, c, mode, reason)
                 ELSE W1
           sub == functionCallInEventloopPromiseOperation(Tail(queue), c)
       IN
       /\ (mode # "rejected" => reason = CHOOSE x \in Reasons : TRUE)
       /\ IF mode = "throw"
            THEN /\ Panic
                 /\ Commit(W1)
                 /\ queue' = Tail(queue)
                 /\ Ran(c, "T3", FALSE)
                 /\ UNCHANGED clo
            ELSE /\ Commit(PerformMicrotaskCheckpoint(W2))
                 /\ clo' = [clo EXCEPT ![c].result =
                              IF mode = "nonpromise" THEN mode ELSE "promise"]
                 /\ queue' = sub.queue
                 /\ RanAndSubmitted(c, "T3", "T4", sub)
                 /\ UNCHANGED engine
  /\ UNCHANGED <<req, accepted, connected, sleeping>>

\* T4, the task body of functionCallInEventloopPromiseOperation: check the
\* value, attach then and catch, submit the first poll with the promise that
\* the variable prom then holds (prom = prom.Then(..); prom = prom.Catch(..)).
\* auto: the engine makes its microtask checkpoint when an API call made
\* from the host returns.
T4(c) ==
  /\ Next1(c, "T4")
  /\ IF clo[c].result # "promise"
       THEN /\ Panic
            /\ queue' = Tail(queue)
            /\ Ran(c, "T4", FALSE)
            /\ UNCHANGED <<rc, pr, micro, hist>>
       ELSE \E auto \in BOOLEAN :
            LET W1 == PromiseThen(World, c)
                W2 == IF auto THEN PerformMicrotaskCheckpoint(W1) ELSE W1
                W3 == PromiseCatch(W2, c)
                W4 == IF auto THEN PerformMicrotaskCheckpoint(W3) ELSE W3
                sub == functionCallInEventloopFinall(Tail(queue), c)
            IN
            /\ Commit([W4 EXCEPT !.pr[c].polled = "p2"])
            /\ queue' = sub.queue
            /\ RanAndSubmitted(c, "T4", "Tp", sub)
            /\ UNCHANGED engine
  /\ UNCHANGED <<req, accepted, clo, connected, sleeping>>

\* (faulty variant) the poll reading Pending starts two goroutines
callInKernelEventLoopCheck_twice(W, c) ==
  LET st == W.pr[c][W.pr[c].polled] IN
  CASE st = "pending" -> [W |-> W, spawn |-> 2]
    [] st = "rejected" -> [W |-> PerformMicrotaskCheckpoint(W), spawn |-> 0]
    [] OTHER -> [W |-> W, spawn |-> 0]

\* (faulty variant) the poll gives up when it reads Pending
callInKernelEventLoopCheck_givesUp(W, c) ==
  LET st == W.pr[c][W.pr[c].polled] IN
  CASE st = "pending" ->
         [W |-> functionCallException(W, c, "pending"), spawn |-> 0]
    [] st = "rejected" -> [W |-> PerformMicrotaskCheckpoint(W), spawn |-> 0]
    [] OTHER -> [W |-> W, spawn |-> 0]

\* (faulty variant) the poll delivers ok when it reads Fulfilled
callInKernelEventLoopCheck_delivers(W, c) ==
  LET st == W.pr[c][W.pr[c].polled] IN
  CASE st = "pending" -> [W |-> W, spawn |-> 1]
    [] st = "rejected" -> [W |-> PerformMicrotaskCheckpoint(W), spawn |-> 0]
    [] OTHER -> [W |-> resolveFunctionCallbackV8(W, c, "undefined"),
                 spawn |-> 0]

\* callInKernelEventLoopCheck: read the state of the polled promise.
\* Pending: start a goroutine that sleeps and re-submits the poll.
\* Rejected: one microtask checkpoint. Fulfilled: nothing.
callInKernelEventLoopCheck(W, c) ==
  LET st == W.pr[c][W.pr[c].polled] IN
  CASE st = "pending" -> [W |-> W, spawn |-> 1]
    [] st = "rejected" -> [W |-> PerformMicrotaskCheckpoint(W), spawn |-> 0]
    [] OTHER -> [W |-> W, spawn |-> 0]

\* Tp, the task body of functionCallInEventloopFinall (the first poll)
Tp(c) ==
  /\ Next1(c, "Tp")
  /\ LET chk == callInKernelEventLoopCheck(World, c) IN
     /\ Commit(chk.W)
     /\ sleeping' = [sleeping EXCEPT ![c] = @ + chk.spawn]
  /\ queue' = Tail(queue)
  /\ Ran(c, "Tp", TRUE)
  /\ UNCHANGED <<req, accepted, engine, clo, connected>>

\* Tq, the task the poll goroutine submitted: the same check, no setters
Tq(c) ==
  /\ Next1(c, "Tq")
  /\ LET chk == callInKernelEventLoopCheck(World, c) IN
     /\ Commit(chk.W)
     /\ sleeping' = [sleeping EXCEPT ![c] = @ + chk.spawn]
  /\ queue' = Tail(queue)
  /\ Ran(c, "Tq", FALSE)
  /\ UNCHANGED <<req, accepted, engine, clo, connected>>

\* (faulty variant) the goroutine reads the promise itself after its sleep
PollWake_polls(c) ==
  /\ Alive
  /\ sleeping[c] > 0
  /\ LET chk == callInKernelEventLoopCheck(World, c) IN
     /\ Commit(chk.W)
     /\ sleeping' = [sleeping EXCEPT ![c] = @ - 1 + chk.spawn]
  /\ UNCHANGED <<req, accepted, engine, queue, clo, task, connected>>

\* the poll goroutine wakes after its 1 ms and submits Tq; the submission's
\* error is ignored
PollWake(c) ==
  /\ Alive
  /\ sleeping[c] > 0
  /\ sleeping' = [sleeping EXCEPT ![c] = @ - 1]
  /\ queue' = AddToEventLoop(queue, Task(c, "Tq")).queue
  /\ UNCHANGED <<req, accepted, engine, clo, task, rc, pr, micro, connected,
                 hist>>

(* -------------------------------- timers ------------------------------- *)

\* a timer of call c expires on the host and its callback is submitted
TimerWake(c) ==
  /\ Alive
  /\ rc[c].armed > 0
  /\ LET a == AddToEventLoop(queue, Task(c, "Tt")) IN
     /\ queue' = a.queue
     /\ rc' = [rc EXCEPT ![c].armed = @ - 1,
                         ![c].timers = IF a.err = "nil" THEN @ ELSE @ - 1]
  /\ UNCHANGED <<req, accepted, engine, clo, task, pr, micro, connected,
                 sleeping, hist>>

\* how a timer callback can leave the promise the wrapper returned
TimerSettles == {"leave", "fulfilled", "rejected"}

\* Tt: the callback of a timer runs user code on the engine thread
Tt(c) ==
  /\ Next1(c, "Tt")
  /\ \E ops \in ScriptsOf(c, clo[c].requestObj), st \in TimerSettles,
        reason \in Reasons :
       LET W0 == [World EXCEPT !.rc[c].timers = @ - 1]
           W1 == UserRun(W0, c, ops, "Tt")
           W2 == CASE st = "fulfilled" -> SettleP0(W1, c, st, NoReason)
                   [] st = "rejected" -> SettleP0(W1, c, st, reason)
                   [] OTHER -> W1
       IN
       /\ (st # "rejected" => reason = CHOOSE x \in Reasons : TRUE)
       /\ (st # "leave" => pr[c].p0 = "pending")
       /\ Commit(PerformMicrotaskCheckpoint(W2))
  /\ queue' = Tail(queue)
  /\ Ran(c, "Tt", FALSE)
  /\ UNCHANGED <<req, accepted, engine, clo, connected, sleeping>>

(* ---------------------------- specification ---------------------------- *)

Next ==
  \/ \E c \in Calls : Submit(c)
  \/ \E c \in Calls : Disconnect(c)
  \/ \E c \in Calls : T1(c)
  \/ \E c \in Calls : T2(c)
  \/ \E c \in Calls : T3(c)
  \/ \E c \in Calls : T4(c)
  \/ \E c \in Calls : Tp(c)
  \/ \E c \in Calls : Tq(c)
  \/ \E c \in Calls : PollWake(c)
  \/ \E c \in Calls : TimerWake(c)
  \/ \E c \in Calls : Tt(c)

Spec == Init /\ [][Next]_vars

\* the same system while the process may be told to shut down
NextShutdown == Next \/ SignalShutdown \/ LoopClosed

SpecShutdown == Init /\ [][NextShutdown]_vars

(* ----------------------- the marshaller on its own --------------------- *)

\* the longest signature and the longest parameter list handed to T1
MaxParams == 2

\* the six tags of the switch and one tag outside them
ParameterTags == SupportedTags \cup {"date"}

\* the Go value the transport decodes for a parameter of each tag
GoKindOf(tag) ==
  CASE tag = "boolean" -> "bool"
    [] tag = "number" -> "float64"
    [] tag = "string" -> "string"
    [] tag = "array" -> "slice"
    [] tag = "object" -> "map"
    [] tag = "bytes" -> "byteslice"
    [] OTHER -> "time"

TaggedParams == {Param(t, GoKindOf(t)) : t \in ParameterTags}

SeqsUpTo(S, n) == UNION {[1..m -> S] : m \in 0..n}

\* call 1 was accepted with request r and its T1 is at the head of the queue
InitWith(r) ==
  /\ req = [c \in Calls |-> IF c = 1 THEN r ELSE NoRequest]
  /\ accepted = [c \in Calls |-> IF c = 1 THEN "yes" ELSE "no"]
  /\ engine = "running"
  /\ queue = <<Task(1, "T1")>>
  /\ clo = [c \in Calls |-> NoClosure]
  /\ task = [c \in Calls |->
              [k \in Kinds |->
                 [ran |-> 0, err |-> FALSE, res |-> FALSE,
                  sub |-> IF c = 1 /\ k = "T1" THEN "nil" ELSE "none"]]]
  /\ rc = [c \in Calls |->
            [terminal |-> FALSE, sink |-> <<>>, final |-> FALSE,
             registered |-> 0, timers |-> 0, armed |-> 0,
             probe |-> "none"]]
  /\ pr = [c \in Calls |->
            [p0 |-> "none", p1 |-> "none", p2 |-> "none",
             reason |-> NoReason, polled |-> "none"]]
  /\ micro = <<>>
  /\ connected = [c \in Calls |-> TRUE]
  /\ sleeping = [c \in Calls |-> 0]
  /\ hist = [c \in Calls |-> <<>>]

\* any signature and any parameter list
InitConvert ==
  \E sig \in SeqsUpTo(ParameterTags, MaxParams),
     parms \in SeqsUpTo(TaggedParams, MaxParams) :
    InitWith(RpcRequest("IPC", sig, parms, NoHttp))

NextConvert == \E c \in Calls : T1(c)

SpecConvert == InitConvert /\ [][NextConvert]_vars

(* -------------------- the request object on its own -------------------- *)

HeaderNames == {"Accept", "Via"}

HeaderValues == {"a", "b"}

\* the most values one header has
MaxHeaderValues == 2

ValueLists == SeqsUpTo(HeaderValues, MaxHeaderValues)

\* http.Header, a map from name to value list, as the sequence of its
\* entries in the order the range loop visits them (any order)
HeaderMaps ==
  {<<>>}
  \cup {<<[k |-> n, v |-> vs]>> : n \in HeaderNames, vs \in ValueLists}
  \cup {<<[k |-> p[1], v |-> v1], [k |-> p[2], v |-> v2]>> :
          p \in {q \in HeaderNames \X HeaderNames : q[1] # q[2]},
          v1 \in ValueLists, v2 \in ValueLists}

\* any HTTP request
InitBuild ==
  \E header \in HeaderMaps :
    InitWith(RpcRequest("HTTP", <<>>, <<>>,
                        [SomeHttp EXCEPT !.Header = header]))

NextBuild == \E c \in Calls : T1(c)

SpecBuild == InitBuild /\ [][NextBuild]_vars

(* ------------------- one call alone on a running engine ---------------- *)

\* the engine thread runs the task at the head of its queue
EngineStep ==
  T1(1) \/ T2(1) \/ T3(1) \/ T4(1) \/ Tp(1) \/ Tq(1) \/ Tt(1)

\* call 1 arrives and nothing else enters the engine: no other call, no
\* disconnect, no shutdown
NextAlone ==
  \/ Submit(1)
  \/ T1(1)
  \/ T2(1)
  \/ T3(1)
  \/ T4(1)
  \/ Tp(1)
  \/ Tq(1)
  \/ Tt(1)
  \/ PollWake(1)
  \/ TimerWake(1)

\* the engine loop keeps running its queue; the goroutine of a poll and a
\* host timer wake up
SpecAlone ==
  /\ Init
  /\ [][NextAlone]_vars
  /\ WF_vars(EngineStep)
  /\ WF_vars(PollWake(1))
  /\ WF_vars(TimerWake(1))

\* the same while the transport may lose the caller
NextAbort == NextAlone \/ Disconnect(1)

SpecAbort ==
  /\ Init
  /\ [][NextAbort]_vars
  /\ WF_vars(EngineStep)
  /\ WF_vars(PollWake(1))
  /\ WF_vars(TimerWake(1))

(* ============================== properties ============================= *)

\* an event that asks for an outcome (a fulfilled promise asks for none)
IsTerminator(sig) == sig.k # "Fulfilled"

\* index of the first terminator among the signals of a call, 0 if none
FirstTerminator(h) ==
  IF \E i \in 1..Len(h) : IsTerminator(h[i])
    THEN CHOOSE i \in 1..Len(h) :
           IsTerminator(h[i]) /\ \A j \in 1..(i - 1) : ~IsTerminator(h[j])
    ELSE 0

\* the outcome a terminator asks for
OutcomeOf(sig) ==
  CASE sig.k = "Resolve" -> FunctionCallState("ok", sig.p.s, "")
    [] sig.k \in {"Reject", "Rejected"} ->
         FunctionCallState("exception", "", V8String(sig.p))
    [] sig.k = "EngineFail" ->
         FunctionCallState("aborted", "", "javascript engine error")
    [] sig.k = "Disconnect" ->
         FunctionCallState("aborted", "", "client disconnected")

Delivered(c) == rc[c].sink

(* ---- C1 ---- *)

\* C1: single outcome, at most one. Whatever the interleaving of Resolve,
\* Reject, functionCallFinal, functionCallException, the IsConnected failure
\* path and a disconnect, the response sink of a call holds at most one
\* FunctionCallState; it is there exactly when the terminal flag is set, and
\* it is the outcome of the first terminator raised for the call.
C1_AtMostOneOutcome ==
  \A c \in Calls :
    /\ Len(Delivered(c)) <= 1
    /\ rc[c].terminal <=> Delivered(c) # <<>>
    /\ Delivered(c) # <<>> =>
         /\ FirstTerminator(hist[c]) # 0
         /\ Delivered(c)[1] = OutcomeOf(hist[c][FirstTerminator(hist[c])])

\* two terminators were raised for call 1, the second one inside the engine
C1_Witness ==
  /\ Len(hist[1]) = 2
  /\ IsTerminator(hist[1][1]) /\ IsTerminator(hist[1][2])
  /\ hist[1][1].k = "Disconnect" /\ hist[1][2].k = "EngineFail"
  /\ Len(Delivered(1)) = 1

(* ---- C2 ---- *)

\* the process has ended on an unrecovered panic: nothing runs any more
Halted == engine = "panicked"

ArityRespected == \A c \in Calls : Len(req[c].Parms) = Len(req[c].Signature)

\* C2: single outcome, at least one. Every call the pipeline accepted ends
\* with exactly one FunctionCallState on its sink, whichever path it takes
\* (a synchronous throw in T3 and a non-promise in T4 included). Stated on
\* the final states: when nothing can run any more, every accepted call has
\* its outcome. Calls are taken with as many parameters as the signature.
C2_EveryAcceptedCallGetsOutcome ==
  \A c \in Calls :
    (accepted[c] = "yes" /\ ArityRespected /\ Halted) =>
      Len(Delivered(c)) = 1

(* ---- C3 ---- *)

PipelineKinds == {"T1", "T2", "T3", "T4", "Tp", "Tq"}

Queued(c, k) == \E i \in 1..Len(queue) : queue[i] = Task(c, k)

\* C3: signature enforcement. A call with some params[i].ctype different
\* from signature[i] never gets past T1: T2, T3, T4 and the polls are never
\* submitted and never run, so the user function is never invoked.
C3_SignatureEnforced ==
  \A c \in Calls :
    TypeMismatch(req[c]) =>
      \A k \in PipelineKinds \ {"T1"} :
        task[c][k].ran = 0 /\ ~Queued(c, k)

\* the T1 body of a call with a mismatching parameter has run
C3_Witness ==
  /\ TypeMismatch(req[1])
  /\ task[1]["T1"].ran = 1
  /\ queue = <<>>

(* ---- C4 ---- *)

\* the body of task k of call c ran and took one of its failure returns
BodyFailed(c, k) == Alive /\ task[c][k].ran > 0 /\ ~task[c][k].res

\* the engine loop has nothing left to run and no timer or poll is pending
EngineIdle ==
  /\ queue = <<>>
  /\ \A c \in Calls : sleeping[c] = 0 /\ rc[c].armed = 0

\* C4: a preparation failure becomes an aborted outcome. When the body of T1
\* or of T2 fails, the task's error setter has been called, and once the
\* engine loop is idle the call's sink holds an outcome of state aborted.
C4_PreparationFailureAborts ==
  \A c \in Calls : \A k \in {"T1", "T2"} :
    BodyFailed(c, k) =>
      /\ task[c][k].err
      /\ EngineIdle =>
           Delivered(c) # <<>> /\ Delivered(c)[1].State = "aborted"

(* ---- C5 ---- *)

\* the stage before each stage of the chain T1, T2, T3, T4, Tp, Tq
Before(k) ==
  CASE k = "T2" -> "T1"
    [] k = "T3" -> "T2"
    [] k = "T4" -> "T3"
    [] k = "Tp" -> "T4"
    [] k = "Tq" -> "Tp"

Occurrences(c, k) == Cardinality({i \in 1..Len(queue) : queue[i] = Task(c, k)})

\* C5: ordering within one call. Each of T1..T4 and the first poll runs at
\* most once and is queued at most once; a stage is queued or has run only
\* if the stage before it has run (it is submitted from that stage's body);
\* no poll is queued, sleeping or run before T4 attached then and catch.
C5_StagesInOrder ==
  \A c \in Calls :
    /\ \A k \in {"T1", "T2", "T3", "T4", "Tp"} :
         /\ task[c][k].ran <= 1
         /\ Occurrences(c, k) <= 1
         /\ Queued(c, k) => task[c][k].ran = 0
    /\ \A k \in {"T2", "T3", "T4", "Tp", "Tq"} :
         (Queued(c, k) \/ task[c][k].ran > 0) => task[c][Before(k)].ran = 1
    /\ (Queued(c, "Tp") \/ Queued(c, "Tq") \/ sleeping[c] > 0
          \/ task[c]["Tp"].ran > 0 \/ task[c]["Tq"].ran > 0) =>
         pr[c].p1 # "none" /\ pr[c].p2 # "none"

\* call 1 is polling while call 2 is in the middle of its pipeline
C5_Witness ==
  /\ task[1]["Tq"].ran > 0
  /\ task[2]["T2"].ran = 1 /\ task[2]["T3"].ran = 0
  /\ Queued(1, "Tq") /\ Queued(2, "T3")

(* ---- C6 ---- *)

FirstEvent(c) == hist[c][FirstTerminator(hist[c])]

\* C6: disconnect during pending. When the disconnect is the first
\* terminator of a call, the outcome delivered is aborted with error
\* "client disconnected", the terminal flag is set, and whatever Resolve,
\* Reject, functionCallFinal or functionCallException arrives afterwards
\* changes neither and delivers nothing more.
C6_DisconnectWins ==
  \A c \in Calls :
    (FirstTerminator(hist[c]) # 0 /\ FirstEvent(c).k = "Disconnect") =>
      /\ rc[c].terminal
      /\ Delivered(c) =
           <<FunctionCallState("aborted", "", "client disconnected")>>

\* after the disconnect of call 1 its promise rejected and the onRejected
\* handler ran
C6_Witness ==
  /\ Len(hist[1]) = 2
  /\ hist[1][1].k = "Disconnect"
  /\ hist[1][2].k = "Rejected"

(* ---- C7 ---- *)

\* C7: sync resolve. When the first terminator of a call is a Resolve(v) the
\* user function made during its invocation in T3, the outcome delivered is
\* ok with result v, also after the onFulfilled handler ran.
C7_SyncResolve ==
  \A c \in Calls :
    (FirstTerminator(hist[c]) # 0 /\ FirstEvent(c).k = "Resolve"
       /\ FirstEvent(c).at = "T3") =>
      Delivered(c) = <<FunctionCallState("ok", FirstEvent(c).p.s, "")>>

\* call 1 resolved with v24 in T3 and its onFulfilled handler ran afterwards
C7_Witness ==
  /\ Len(hist[1]) = 2
  /\ hist[1][1] = [k |-> "Resolve", p |-> Val("v24"), at |-> "T3"]
  /\ hist[1][2].k = "Fulfilled"

(* ---- C8 ---- *)

NoTerminatorYet(c) == FirstTerminator(hist[c]) = 0 /\ Len(hist[c]) < MaxLog

\* C8: async resolve. When the first terminator of a call is a Resolve(v)
\* made by a timer callback, the outcome delivered is ok with result v, also
\* when the promise fulfilled and functionCallFinal ran before the timer
\* fired; while a timer is outstanding and no terminator was raised, the call
\* is not terminal.
C8_AsyncResolve ==
  \A c \in Calls :
    /\ (FirstTerminator(hist[c]) # 0 /\ FirstEvent(c).k = "Resolve"
          /\ FirstEvent(c).at = "Tt") =>
         Delivered(c) = <<FunctionCallState("ok", FirstEvent(c).p.s, "")>>
    /\ (rc[c].timers > 0 /\ NoTerminatorYet(c)) =>
         ~rc[c].terminal /\ Delivered(c) = <<>>

\* the promise of call 1 fulfilled and functionCallFinal ran, then the timer
\* callback resolved with v24
C8_Witness ==
  /\ hist[1] = <<[k |-> "Fulfilled", p |-> NoReason, at |-> "micro"],
                 [k |-> "Resolve", p |-> Val("v24"), at |-> "Tt"]>>
  /\ rc[1].final
  /\ rc[1].timers = 0

(* ---- C9 ---- *)

\* C9: fulfilment alone is not an outcome. While the wrapper's promise is
\* fulfilled and neither user code nor the transport raised a terminator,
\* nothing is delivered and the call is not terminal, also after the
\* onFulfilled handler called functionCallFinal.
C9_FulfilmentDeliversNothing ==
  \A c \in Calls :
    (pr[c].p0 = "fulfilled" /\ NoTerminatorYet(c)) =>
      ~rc[c].terminal /\ Delivered(c) = <<>>

\* the onFulfilled handler of call 1 ran and the poll saw the promise settled
C9_Witness ==
  /\ pr[1].p0 = "fulfilled"
  /\ hist[1] = <<[k |-> "Fulfilled", p |-> NoReason, at |-> "micro"]>>
  /\ rc[1].final
  /\ task[1]["Tp"].ran = 1
  /\ sleeping[1] = 0 /\ ~Queued(1, "Tq")

(* ---- C10 ---- *)

Count(h, kind) == Cardinality({i \in 1..Len(h) : h[i].k = kind})

Threw(c) == task[c]["T3"].ran > 0 /\ clo[c].result = "none"

\* C11: synchronous throw in T3. When calling the wrapper throws, the T3 task
\* fails with the engine's error, the call gets its outcome, which is
\* exception unless user code terminated the call before it threw, T4 and Tp
\* are never submitted, and the engine loop keeps serving the other calls.
C11_SyncThrowBecomesException ==
  \A c \in Calls :
    Threw(c) =>
      /\ Alive
      /\ task[c]["T3"].err
      /\ ~Queued(c, "T4") /\ task[c]["T4"].ran = 0
      /\ ~Queued(c, "Tp") /\ task[c]["Tp"].ran = 0
      /\ Len(Delivered(c)) = 1
      /\ FirstTerminator(hist[c]) = 0 => Delivered(c)[1].State = "exception"

(* ---- C12 ---- *)

\* T4 of call c ran on a value that is no promise
NotAPromise(c) == task[c]["T4"].ran > 0 /\ clo[c].result = "nonpromise"

\* C12: non-promise wrapper return. When the value handed to T4 is no
\* promise, neither then nor catch is attached, no poll is submitted, the
\* outcome of the call is aborted unless user code terminated it before, and
\* the engine loop keeps serving the other calls.
C12_NonPromiseAbortsOneCall ==
  \A c \in Calls :
    NotAPromise(c) =>
      /\ Alive
      /\ pr[c].p1 = "none" /\ pr[c].p2 = "none"
      /\ ~Queued(c, "Tp") /\ task[c]["Tp"].ran = 0
      /\ Len(Delivered(c)) = 1
      /\ FirstTerminator(hist[c]) = 0 => Delivered(c)[1].State = "aborted"

(* ---- C13 ---- *)

\* what a submitting function has to return in each state of the scheduler
ExpectedError ==
  CASE engine = "running" -> "nil"
    [] engine = "closing" -> "SpecificError"
    [] OTHER -> "functionCallInEventloopFinall: eventloop closed"

\* C13: scheduler error mapping. Whenever one of the five submitting
\* functions returns, it returns nil and its task is queued if AddToEventLoop
\* succeeded, the very same SpecificError if AddToEventLoop failed with a
\* SpecificError, and the fixed tag followed by the original message for any
\* other failure; a task whose submission failed is never queued and never
\* runs.
C13_SchedulerErrorMapping ==
  /\ [](\A c \in Calls : \A k \in PipelineKinds :
          task[c][k].sub \notin {"none", "nil"} =>
            ~Queued(c, k) /\ task[c][k].ran = 0)
  /\ [][\A c \in Calls : \A k \in PipelineKinds :
          task'[c][k].sub # task[c][k].sub =>
            /\ task'[c][k].sub = ExpectedError
            /\ task'[c][k].sub = "nil" =>
                 queue' # <<>> /\ queue'[Len(queue')] = Task(c, k)
            /\ task'[c][k].sub # "nil" =>
                 \A i \in 1..Len(queue') : queue'[i] # Task(c, k)]_vars

\* call 1 was refused with the SpecificError; T1 of call 2 ran and its
\* submission of T2 failed with the plain error of the closed loop, wrapped
C13_Witness ==
  /\ task[1]["T1"].sub = "SpecificError" /\ accepted[1] = "refused"
  /\ task[2]["T1"].ran = 1 /\ ~task[2]["T1"].res
  /\ task[2]["T2"].sub = "functionCallInEventloopFinall: eventloop closed"
  /\ task[2]["T2"].ran = 0

(* ---- C14 ---- *)

\* T1 of call 1 has run on the request of call 1
Marshalled == task[1]["T1"].ran = 1

SameArity == Len(req[1].Parms) = Len(req[1].Signature)

\* C14: convert_params is all-or-nothing and order preserving. For a
\* parameter list as long as the signature, the conversion hands on a value
\* sequence if and only if every params[i].ctype equals signature[i] and is
\* one of the six tags; on success there is one value per parameter, in
\* parameter order; on failure no value is handed on.
C14_ConvertAllOrNothing ==
  (Marshalled /\ SameArity) =>
    LET Parms == req[1].Parms
        vals == clo[1].convertedValues
    IN
    /\ task[1]["T1"].res <=>
         \A i \in 1..Len(Parms) :
            /\ Parms[i].CType = req[1].Signature[i]
            /\ Parms[i].CType \in SupportedTags
    /\ task[1]["T1"].res =>
         /\ Len(vals) = Len(Parms)
         /\ \A i \in 1..Len(Parms) : vals[i].js = Parms[i].Value
    /\ ~task[1]["T1"].res => vals = <<>>

(* ---- C15 ---- *)

\* C15: arity. A call whose parameter list is not as long as the signature
\* is rejected before marshalling: the conversion does not index past the
\* end of the signature (the process stays alive), no value is converted and
\* the next stage is not submitted.
C15_ArityChecked ==
  (Marshalled /\ ~SameArity) =>
    /\ Alive
    /\ clo[1].convertedValues = <<>>
    /\ ~task[1]["T1"].res
    /\ ~Queued(1, "T2")

(* ---- C16 ---- *)

\* the entries of a sequence of keyed entries that have key k
EntriesOf(entries, k) == {i \in 1..Len(entries) : entries[i].k = k}

\* C16: header multiplicity. In the request object built for an HTTP
\* request, every header name of the request has exactly one entry in
\* http.Headers, which is an array holding the values of that header in
\* their source order (as many as the request has, one for a single-valued
\* header), and Headers has no key the request does not have.
C16_HeadersAreArrays ==
  (Marshalled /\ task[1]["T1"].res /\ req[1].RequestType = "HTTP") =>
    LET Header == req[1].HttpRequest.Header
        Headers == clo[1].requestObj.http.Headers
    IN
    /\ \A i \in 1..Len(Header) :
         /\ Cardinality(EntriesOf(Headers, Header[i].k)) = 1
         /\ \A j \in EntriesOf(Headers, Header[i].k) :
              /\ Headers[j].isArray
              /\ Len(Headers[j].items) = Len(Header[i].v)
              /\ \A n \in 1..Len(Header[i].v) :
                   Headers[j].items[n] = Header[i].v[n]
    /\ \A j \in 1..Len(Headers) : EntriesOf(Header, Headers[j].k) # {}

\* the object was built for a request with a two-valued and a single-valued
\* header
C16_Witness ==
  /\ Marshalled /\ task[1]["T1"].res
  /\ req[1].HttpRequest.Header =
       <<[k |-> "Via", v |-> <<"b", "a">>], [k |-> "Accept", v |-> <<"a">>]>>
  /\ Len(clo[1].requestObj.http.Headers) = 2

(* ---- C17 ---- *)

\* T1 of call c ran and the conversion of the parameters succeeded, so that
\* v8makeSharedFunctionObject was called
ObjectRequested(c) ==
  /\ task[c]["T1"].ran = 1
  /\ convertRequestParametersToV8Parameters(req[c].Signature,
                                            req[c].Parms).status = "ok"

\* the request has one of the three known types, with its HTTP metadata if
\* it is an HTTP request
Buildable(r) ==
  \/ r.RequestType = "HTTP" /\ r.HttpRequest.present
  \/ r.RequestType \in {"WEBSOCKET", "IPC"}

\* C17: CallMethode vocabulary. The request object built for a call has
\* CallMethode "http" for an HTTP request, "ws" for a WEBSOCKET request and
\* "ipc" for an IPC request, and a nested http object only for HTTP; for
\* any other request type and for an HTTP request without HTTP metadata no
\* object is built and the user function is not invoked.
C17_CallMethodeVocabulary ==
  \A c \in Calls :
    ObjectRequested(c) =>
      LET obj == clo[c].requestObj IN
      IF Buildable(req[c])
        THEN /\ obj.CallMethode =
                  CASE req[c].RequestType = "HTTP" -> "http"
                    [] req[c].RequestType = "WEBSOCKET" -> "ws"
                    [] req[c].RequestType = "IPC" -> "ipc"
             /\ obj.http.present <=> req[c].RequestType = "HTTP"
        ELSE /\ obj = NoObject
             /\ ~task[c]["T1"].res
             /\ \A k \in {"T2", "T3", "T4", "Tp"} :
                  ~Queued(c, k) /\ task[c][k].ran = 0
             /\ \A i \in 1..Len(hist[c]) : hist[c][i].k = "Disconnect"

\* no object was built for the HTTP request of call 1, which has no HTTP
\* metadata, while the websocket call 2 has run its user function
C17_Witness ==
  /\ req[1].RequestType = "HTTP" /\ ~req[1].HttpRequest.present
  /\ task[1]["T1"].ran = 1
  /\ clo[2].requestObj.CallMethode = "ws"
  /\ task[2]["T3"].ran = 1

(* ---- C18 ---- *)

\* the state of the promise the poll of call c reads
Polled(c) == pr[c][pr[c].polled]

\* C18: the poll never terminates a call. No execution of the poll (the
\* first one, Tp, or a later one, Tq) writes to the response sink or changes
\* the terminal flag or any other field of the request context; reading
\* Pending it only schedules one further poll, reading Fulfilled it does
\* nothing, reading Rejected it schedules nothing.
C18_PollNeverTerminates ==
  [][\A c \in Calls :
       (Tp(c) \/ Tq(c)) =>
         /\ rc' = rc
         /\ connected' = connected
         /\ queue' = Tail(queue)
         /\ CASE Polled(c) = "pending" ->
                   /\ sleeping' = [sleeping EXCEPT ![c] = @ + 1]
                   /\ pr' = pr /\ micro' = micro /\ hist' = hist
              [] Polled(c) = "rejected" -> sleeping' = sleeping
              [] OTHER ->
                   /\ sleeping' = sleeping
                   /\ pr' = pr /\ micro' = micro /\ hist' = hist]_vars

\* a later poll of call 1 read Fulfilled and stopped; nothing was delivered
C18_Witness ==
  /\ task[1]["Tq"].ran = 1
  /\ Polled(1) = "fulfilled"
  /\ sleeping[1] = 0 /\ ~Queued(1, "Tq")
  /\ rc[1].sink = <<>> /\ ~rc[1].terminal

(* ---- C19 ---- *)

\* C19: forward progress of the poll. With nothing else entering the
\* engine, once the wrapper's promise is rejected the polling leads to the
\* onRejected handler having run and the call having its outcome, and once
\* the promise is fulfilled the polling leads to the onFulfilled handler
\* having run.
C19_PollMakesProgress ==
  /\ (pr[1].p0 = "rejected") ~> (Settled(pr[1].p1) /\ rc[1].terminal)
  /\ (pr[1].p0 = "fulfilled") ~> Settled(pr[1].p1)

(* ---- C20 ---- *)

\* the polls of call c that are sleeping in their goroutine or queued
PollPopulation(c) ==
  sleeping[c] + Occurrences(c, "Tp") + Occurrences(c, "Tq")

\* C20: poll step and poll population. A poll that reads Pending schedules
\* exactly one further poll, which is sleeping on the host when the body
\* returns (the engine thread took the task off its queue and did not wait);
\* a poll that reads Fulfilled or Rejected schedules none, so that polling
\* has ended after it; at any time at most one poll of a call is sleeping or
\* queued.
C20_PollPopulation ==
  /\ [](\A c \in Calls : PollPopulation(c) <= 1)
  /\ [][\A c \in Calls :
          (Tp(c) \/ Tq(c)) =>
            /\ queue' = Tail(queue)
            /\ IF Polled(c) = "pending"
                 THEN sleeping'[c] = 1
                 ELSE sleeping'[c] = 0
            /\ \A i \in 1..Len(queue') :
                 queue'[i] \notin {Task(c, "Tp"), Task(c, "Tq")}]_vars

\* a later poll of call 1 read Pending again and its successor is sleeping
C20_Witness ==
  /\ task[1]["Tq"].ran = 1
  /\ Polled(1) = "pending"
  /\ sleeping[1] = 1
  /\ ~Queued(1, "Tq")

(* ---- C21 ---- *)

\* C21: the poll observes the call's own promise. The promise whose state
\* the polls of a call read is the one the wrapper call returned in T3, so
\* that once that promise is rejected the poll reads Rejected.
C21_PollObservesWrapperPromise ==
  \A c \in Calls :
    pr[c].polled # "none" =>
      /\ pr[c].polled = "p0"
      /\ pr[c].p0 = "rejected" => Polled(c) = "rejected"

(* ---- C22 ---- *)

\* C22: errors inside task bodies are captured. A task body never panics,
\* and when the body of T1, T2, T3, T4 or Tp has returned, its error setter
\* or its completion setter has been called; it has failed exactly when the
\* error setter was called.
C22_TaskErrorsCaptured ==
  /\ Alive
  /\ \A c \in Calls : \A k \in PipelineKinds :
       task[c][k].ran > 0 =>
         /\ task[c][k].err \/ task[c][k].res
         /\ ~task[c][k].res => task[c][k].err

(* ---- C25 ---- *)

\* C25: IsConnected is a live, side-effect-free probe. Every call of
\* IsConnected returns the value the transport's flag has at that moment,
\* hence false once the transport has set it to false, or throws; a call
\* that returns writes no outcome; a call that throws leaves the call
\* terminal, with aborted / "javascript engine error" on the sink if no
\* terminator had won before. (A reaction that runs in the same engine turn
\* is told apart by the promise it settles.)
C25_IsConnectedLiveProbe ==
  [][\A c \in Calls :
       rc'[c].probe # rc[c].probe =>
         /\ rc'[c].probe \in {V8Bool(connected[c]), "throw"}
         /\ (rc'[c].probe # "throw" /\ pr'[c].p1 = pr[c].p1) =>
              /\ rc'[c].sink = rc[c].sink
              /\ rc'[c].terminal = rc[c].terminal
         /\ rc'[c].probe = "throw" =>
              /\ rc'[c].terminal
              /\ rc[c].terminal => rc'[c].sink = rc[c].sink
              /\ (~rc[c].terminal /\ pr'[c].p1 = pr[c].p1) =>
                   rc'[c].sink = <<FunctionCallState("aborted", "",
                                      "javascript engine error")>>]_vars

\* user code of call 1 probed after the transport had cleared the flag and
\* was told false; the only outcome is the one of the disconnect
C25_Witness ==
  /\ ~connected[1]
  /\ rc[1].probe = "false"
  /\ rc[1].sink =
       <<FunctionCallState("aborted", "", "client disconnected")>>

(* ---- C23 ---- *)

\* the step took the task at the head of the queue and ran its body (which
\* may have submitted one task)
TaskStep ==
  /\ Alive
  /\ queue # <<>>
  /\ queue' # queue
  /\ \/ queue' = Tail(queue)
     \/ /\ Len(queue') = Len(queue)
        /\ SubSeq(queue', 1, Len(queue) - 1) = Tail(queue)

\* an engine value was created or changed: a converted value, the request
\* object, the proxy arguments, the call's result, a promise, a microtask
EngineValuesChanged == clo' # clo \/ pr' # pr \/ micro' # micro

\* C23: engine affinity. Every step that changes an engine value is the run
\* of the body of the task at the head of the engine loop's queue; a step
\* runs at most one task body; the goroutine of a poll, when it wakes, only
\* submits its task.
C23_EngineAffinity ==
  [][/\ EngineValuesChanged => TaskStep
     /\ Cardinality({ck \in Calls \X Kinds :
           task'[ck[1]][ck[2]].ran # task[ck[1]][ck[2]].ran}) <= 1
     /\ \A c \in Calls :
          sleeping'[c] < sleeping[c] =>
            /\ queue' = Append(queue, Task(c, "Tq"))
            /\ ~EngineValuesChanged
            /\ rc' = rc /\ task' = task]_vars

\* the goroutine of a poll of call 1 has submitted its task behind a task of
\* call 2
C23_Witness ==
  /\ queue = <<Task(2, "T2"), Task(1, "Tq")>>
  /\ sleeping[1] = 0

(* ---- C24 ---- *)

====
